---------------------------- MODULE Spec2Model ----------------------------
(***************************************************************************)
(* Model of the streaming reverse proxy of src/index.js (GET /video-proxy, *)
(* lines 44-48 and 115-214).                                               *)
(*                                                                         *)
(* JavaScript strings are sequences of one-character strings, so that      *)
(* decodeURIComponent, encodeURIComponent and new URL() are computed       *)
(* character by character.  An optional value (a query parameter or a      *)
(* header that may be undefined) is <<>> when undefined and <<s>> when it   *)
(* is the string s; the empty string is <<  <<>>  >>.                      *)
(***************************************************************************)
EXTENDS Integers, Sequences, FiniteSets, TLC

-----------------------------------------------------------------------------
(* Strings                                                                 *)

\* The printable ASCII characters, codes 32..126, in code order (code 96, the
\* grave accent, cannot be written in a TLA+ string and is named instead).
Ascii ==
  << " ", "!", "\"", "#", "$", "%", "&", "'", "(", ")", "*", "+", ",", "-",
     ".", "/", "0", "1", "2", "3", "4", "5", "6", "7", "8", "9", ":", ";",
     "<", "=", ">", "?", "@", "A", "B", "C", "D", "E", "F", "G", "H", "I",
     "J", "K", "L", "M", "N", "O", "P", "Q", "R", "S", "T", "U", "V", "W",
     "X", "Y", "Z", "[", "\\", "]", "^", "_", "grave", "a", "b", "c", "d", "e",
     "f", "g", "h", "i", "j", "k", "l", "m", "n", "o", "p", "q", "r", "s",
     "t", "u", "v", "w", "x", "y", "z", "{", "|", "}", "~" >>

Range(f) == { f[i] : i \in DOMAIN f }

CharCode(c) == 31 + (CHOOSE i \in DOMAIN Ascii : Ascii[i] = c)

\* A byte outside the printable range is kept as an opaque one-element token.
FromCharCode(b) ==
  IF b - 31 \in DOMAIN Ascii THEN Ascii[b - 31] ELSE "\\x"

HexDigits ==
  << "0", "1", "2", "3", "4", "5", "6", "7", "8", "9",
     "A", "B", "C", "D", "E", "F" >>

LowerHex == << "a", "b", "c", "d", "e", "f" >>

IsHex(c) == c \in Range(HexDigits) \/ c \in Range(LowerHex)

HexVal(c) ==
  IF c \in Range(HexDigits)
  THEN (CHOOSE i \in DOMAIN HexDigits : HexDigits[i] = c) - 1
  ELSE 9 + (CHOOSE i \in DOMAIN LowerHex : LowerHex[i] = c)

Digits == { HexDigits[i] : i \in 1..10 }

LowerAlpha == { Ascii[i] : i \in 66..91 }

UpperAlpha == { Ascii[i] : i \in 34..59 }

IsAlpha(c) == c \in LowerAlpha \/ c \in UpperAlpha

\* First index of a character of the set cs in s, or 0.
IndexOfAny(s, cs) ==
  IF \E i \in DOMAIN s : s[i] \in cs
  THEN CHOOSE i \in DOMAIN s : s[i] \in cs /\ \A j \in 1..(i - 1) : s[j] \notin cs
  ELSE 0

\* Last index of the character c in s, or 0.
LastIndexOf(s, c) ==
  IF \E i \in DOMAIN s : s[i] = c
  THEN CHOOSE i \in DOMAIN s : s[i] = c /\ \A j \in (i + 1)..Len(s) : s[j] # c
  ELSE 0

From(s, i) == SubSeq(s, i, Len(s))

\* A thrown exception / a returned value.
Throw == [ok |-> FALSE, v |-> <<>>]

Return(x) == [ok |-> TRUE, v |-> x]

undefined == <<>>

Str(s) == <<s>>

\* JavaScript truthiness of an optional string: undefined and "" are falsy.
Truthy(o) == o # undefined /\ o[1] # <<>>

-----------------------------------------------------------------------------
(* decodeURIComponent / encodeURIComponent                                 *)

\* decodeURIComponent: %XX becomes the byte XX; a "%" not followed by two hex
\* digits, or a byte >= 0x80 that does not start a valid UTF-8 sequence,
\* throws URIError.  The inputs of the model are ASCII, so that every byte
\* >= 0x80 met here is followed by no continuation byte and is malformed.
RECURSIVE decodeURIComponent(_)
decodeURIComponent(s) ==
  IF s = <<>> THEN Return(<<>>)
  ELSE IF s[1] # "%"
    THEN LET r == decodeURIComponent(Tail(s))
         IN  IF r.ok THEN Return(<<s[1]>> \o r.v) ELSE Throw
  ELSE IF Len(s) < 3 \/ ~IsHex(s[2]) \/ ~IsHex(s[3]) THEN Throw
  ELSE LET b == 16 * HexVal(s[2]) + HexVal(s[3])
           r == decodeURIComponent(From(s, 4))
       IN  IF b >= 128 \/ ~r.ok THEN Throw
           ELSE Return(<<FromCharCode(b)>> \o r.v)

\* The characters encodeURIComponent leaves alone: A-Z a-z 0-9 - _ . ! ~ * (apostrophe) ( )
Unreserved ==
  LowerAlpha \cup UpperAlpha \cup Digits
    \cup {"-", "_", ".", "!", "~", "*", "'", "(", ")"}

PercentEncode(c) ==
  LET b == CharCode(c)
  IN  <<"%", HexDigits[(b \div 16) + 1], HexDigits[(b % 16) + 1]>>

RECURSIVE encodeURIComponent(_)
encodeURIComponent(s) ==
  IF s = <<>> THEN <<>>
  ELSE (IF s[1] \in Unreserved THEN <<s[1]>> ELSE PercentEncode(s[1]))
         \o encodeURIComponent(Tail(s))

-----------------------------------------------------------------------------
(* new URL(string): the WHATWG URL parser on an absolute-URL string with   *)
(* no base.  Modelled: scheme, "//" authority (host and port, no userinfo),*)
(* path, query, fragment; special and non-special schemes; default ports;  *)
(* the percent-encoding of the path and of the query.  Not modelled: dot   *)
(* segments, userinfo, IPv6/IDNA hosts and upper-case schemes or hosts,    *)
(* none of which occurs in the strings the model feeds it.                 *)

http == <<"h", "t", "t", "p">>

https == <<"h", "t", "t", "p", "s">>

ftp == <<"f", "t", "p">>

ws == <<"w", "s">>

wss == <<"w", "s", "s">>

SpecialSchemes == {http, https, ftp, ws, wss}

DefaultPort(scheme) ==
  IF scheme = http \/ scheme = ws THEN 80
  ELSE IF scheme = https \/ scheme = wss THEN 443
  ELSE IF scheme = ftp THEN 21
  ELSE 0

SchemeChars == LowerAlpha \cup Digits \cup {"+", "-", "."}

HostChars == LowerAlpha \cup Digits \cup {"-", "."}

\* The value of a string of decimal digits.
RECURSIVE ParseInt(_)
ParseInt(ds) ==
  IF ds = <<>> THEN 0
  ELSE 10 * ParseInt(SubSeq(ds, 1, Len(ds) - 1)) + HexVal(ds[Len(ds)])

RECURSIVE EncodeSet(_, _)
EncodeSet(s, cs) ==
  IF s = <<>> THEN <<>>
  ELSE (IF s[1] \in cs THEN PercentEncode(s[1]) ELSE <<s[1]>>)
         \o EncodeSet(Tail(s), cs)

PathEncodeSet == {" ", "\"", "#", "<", ">", "?", "grave", "{", "}"}

QueryEncodeSet == {" ", "\"", "#", "<", ">"}

SpecialQueryEncodeSet == QueryEncodeSet \cup {"'"}

\* host[:port] of an authority; a port equal to the scheme's default is dropped
\* (port 0 stands for the empty port string).
ParseAuthority(auth, scheme, special) ==
  LET c     == LastIndexOf(auth, ":")
      host  == IF c = 0 THEN auth ELSE SubSeq(auth, 1, c - 1)
      ports == IF c = 0 THEN <<>> ELSE From(auth, c + 1)
      port  == ParseInt(ports)
  IN  IF special /\ host = <<>> THEN Throw
      ELSE IF \E i \in DOMAIN host : host[i] \notin HostChars THEN Throw
      ELSE IF \E i \in DOMAIN ports : ports[i] \notin Digits THEN Throw
      ELSE IF Len(ports) > 5 \/ port > 65535 THEN Throw
      ELSE Return([hostname |-> host,
                   port |-> IF ports = <<>> \/ port = DefaultPort(scheme)
                            THEN 0 ELSE port])

\* pathname and search of what follows the authority (or the scheme).
ParsePathQuery(tail, special, opaque) ==
  LET q     == IndexOfAny(tail, {"?"})
      rawp  == IF q = 0 THEN tail ELSE SubSeq(tail, 1, q - 1)
      rawq  == IF q = 0 THEN <<>> ELSE From(tail, q + 1)
      path  == IF special /\ rawp = <<>> THEN <<"/">>
               ELSE IF opaque THEN rawp
               ELSE EncodeSet(rawp, PathEncodeSet)
      query == EncodeSet(rawq, IF special THEN SpecialQueryEncodeSet
                               ELSE QueryEncodeSet)
  IN  [pathname |-> path,
       search   |-> IF query = <<>> THEN <<>> ELSE <<"?">> \o query]

RECURSIVE SkipSlashes(_)
SkipSlashes(s) ==
  IF s # <<>> /\ s[1] \in {"/", "\\"} THEN SkipSlashes(Tail(s)) ELSE s

PortString(n) ==
  IF n = 0 THEN <<>>
  ELSE LET RECURSIVE Dec(_)
           Dec(k) == IF k = 0 THEN <<>>
                     ELSE Dec(k \div 10) \o <<HexDigits[(k % 10) + 1]>>
       IN  Dec(n)

URL(input) ==
  LET colon  == IndexOfAny(input, {":"})
      scheme == SubSeq(input, 1, colon - 1)
      hash   == IndexOfAny(input, {"#"})
      nofrag == IF hash = 0 THEN input ELSE SubSeq(input, 1, hash - 1)
      rest   == From(nofrag, colon + 1)
      special == scheme \in SpecialSchemes
  IN  IF colon <= 1 \/ (hash # 0 /\ hash < colon) THEN Throw
      ELSE IF ~IsAlpha(scheme[1])
              \/ \E i \in DOMAIN scheme : scheme[i] \notin SchemeChars
        THEN Throw
      ELSE IF special \/ (Len(rest) >= 2 /\ rest[1] = "/" /\ rest[2] = "/")
        THEN LET r1   == IF special THEN SkipSlashes(rest) ELSE From(rest, 3)
                 e    == IndexOfAny(r1, IF special THEN {"/", "\\", "?"}
                                        ELSE {"/", "?"})
                 auth == IF e = 0 THEN r1 ELSE SubSeq(r1, 1, e - 1)
                 tail == IF e = 0 THEN <<>> ELSE From(r1, e)
                 a    == ParseAuthority(auth, scheme, special)
                 pq   == ParsePathQuery(tail, special, FALSE)
             IN  IF ~a.ok THEN Throw
                 ELSE Return([protocol |-> scheme \o <<":">>,
                              hostname |-> a.v.hostname,
                              port     |-> a.v.port,
                              pathname |-> pq.pathname,
                              search   |-> pq.search,
                              origin   |-> IF special
                                THEN scheme \o <<":", "/", "/">> \o a.v.hostname
                                       \o (IF a.v.port = 0 THEN <<>>
                                           ELSE <<":">> \o PortString(a.v.port))
                                ELSE <<"n", "u", "l", "l">>])
      ELSE LET pq == ParsePathQuery(rest, FALSE, TRUE)
           IN  Return([protocol |-> scheme \o <<":">>,
                       hostname |-> <<>>,
                       port     |-> 0,
                       pathname |-> pq.pathname,
                       search   |-> pq.search,
                       origin   |-> <<"n", "u", "l", "l">>])

-----------------------------------------------------------------------------
(* Bounds and inputs                                                       *)

\* Longest upstream body, in chunks (one chunk is one element of the body).
MaxBody == 3

\* Requests the limiter counts in one behaviour.
MaxRequests == 2

\* Chunks a stream buffers before it reports itself full (Node's
\* highWaterMark, scaled to chunks).
HighWaterMark == 1

\* The session slots of the model.
Sessions == {1}

\* A header value the code never looks into is kept as a one-token string.
Tok(t) == <<t>>

U_relative == <<"/", "a">>

U_badEscape == <<"h", "t", "t", "p", ":", "/", "/", "h", "/", "%">>

U_http == <<"h", "t", "t", "p", ":", "/", "/", "h", "/", "a">>

U_https == <<"h", "t", "t", "p", "s", ":", "/", "/", "h", "/", "a">>

U_port == <<"h", "t", "t", "p", ":", "/", "/", "h", ":", "8", "1", "/", "a",
            "?", "q">>

U_ftp == <<"f", "t", "p", ":", "/", "/", "h", "/", "a">>

\* req.query.url: absent, empty, or a string.
UrlInputs ==
  {undefined, Str(<<>>), Str(U_relative), Str(U_badEscape), Str(U_http),
   Str(U_https), Str(U_port), Str(U_ftp)}

\* req.headers.range: absent, empty, or a byte range.
RangeInputs == {undefined, Str(<<>>), Str(Tok("bytes=1-"))}

RedirectStatuses == {301, 302, 303, 307, 308}

UpstreamStatuses == RedirectStatuses \cup {200, 206, 304, 404, 500}

L_absolute == <<"h", "t", "t", "p", ":", "/", "/", "o", "/", "f", "%", "2",
                "0", "g">>

LocationInputs == {undefined, Str(<<>>), Str(L_absolute)}

\* The upstream's content-type, content-length and content-range headers.
UpstreamEntityHeaders ==
  { [ct |-> undefined, cl |-> undefined, cr |-> undefined],
    [ct |-> Str(<<>>), cl |-> Str(<<>>), cr |-> Str(<<>>)],
    [ct |-> Str(Tok("video/webm")), cl |-> undefined, cr |-> undefined],
    [ct |-> undefined, cl |-> Str(Tok("2")), cr |-> undefined],
    [ct |-> undefined, cl |-> undefined, cr |-> Str(Tok("bytes 1-2/3"))],
    [ct |-> Str(Tok("video/webm")), cl |-> Str(Tok("2")),
     cr |-> Str(Tok("bytes 1-2/3"))] }

NoEntityHeaders == [ct |-> undefined, cl |-> undefined, cr |-> undefined]

UpstreamResponse_(st, loc, h) ==
  [statusCode |-> st, location |-> loc, ct |-> h.ct, cl |-> h.cl, cr |-> h.cr]

\* The upstream's body: the chunks 1, 2, ... n.
Body(n) == [i \in 1..n |-> i]

Bodies == { Body(n) : n \in 0..MaxBody }

\* What the upstream may answer, as <<proxyRes.statusCode and headers, body>>:
\* every status with every Location and a one-chunk body, and the entity
\* statuses with every combination of entity headers and every body.
UpstreamReplies ==
  { <<UpstreamResponse_(st, loc, NoEntityHeaders), Body(1)>> :
      st \in UpstreamStatuses, loc \in LocationInputs }
  \cup
  { <<UpstreamResponse_(st, undefined, h), b>> :
      st \in {200, 206}, h \in UpstreamEntityHeaders, b \in Bodies }

\* What the client may ask, as <<req.query.url, req.headers.range>>: every url
\* without a Range header, and every Range header on a url that resolves.
RequestInputs ==
  { <<u, undefined>> : u \in UrlInputs }
  \cup { <<Str(U_http), g>> : g \in RangeInputs }

-----------------------------------------------------------------------------
(* The session: the downstream response res, the upstream request proxyReq *)
(* and the upstream response proxyRes of one inbound request.              *)

NoHeaders ==
  [ct |-> undefined, ar |-> undefined, cc |-> undefined, xcto |-> undefined,
   cl |-> undefined, cr |-> undefined, loc |-> undefined]

Idle ==
  [ active |-> FALSE,          \* a request has arrived for this slot
    limited |-> FALSE,         \* the rate limiter answered it
    url |-> undefined,         \* req.query.url
    range |-> undefined,       \* req.headers.range
    depth |-> 0,               \* redirects the client followed to make it
    via |-> undefined,         \* the upstream Location it followed, if any
    \* downstream: res
    headersSent |-> FALSE,     \* res.headersSent
    resStatus |-> 0,           \* status of the head written, 0 when none
    resHeaders |-> NoHeaders,  \* headers of the head written
    resJson |-> undefined,     \* the error field of a JSON body written
    headWrites |-> 0,          \* times a status/header block was written
    resEnded |-> FALSE,        \* res.end() has been called
    endCalls |-> 0,            \* calls that ended res
    wbuf |-> <<>>,             \* body chunks written to res, not yet sent
    delivered |-> <<>>,        \* body chunks the client has received
    clientOpen |-> TRUE,       \* the client's connection is open
    closeFired |-> FALSE,      \* req's close event has been emitted
    \* upstream: proxyReq, proxyRes
    nUp |-> 0,                 \* upstream requests created
    opts |-> <<>>,             \* the options of the upstream request
    sock |-> "none",           \* the upstream connection: none, open, closed
    reqDestroyed |-> FALSE,    \* proxyReq.destroyed
    destroyCalls |-> 0,        \* calls of proxyReq.destroy()
    upRes |-> <<>>,            \* the upstream response head, once received
    upBody |-> <<>>,           \* the body the upstream sends
    recv |-> 0,                \* chunks of it that have arrived
    rbuf |-> <<>>,             \* chunks buffered in proxyRes
    paused |-> FALSE,          \* proxyRes paused by the pipe
    complete |-> FALSE,        \* proxyRes.complete
    ended |-> FALSE,           \* proxyRes has emitted end
    piped |-> FALSE,           \* proxyRes is piped into res, error listener set
    dumped |-> FALSE,          \* proxyRes._dump() has removed the data listener
    resDestroyed |-> FALSE,    \* proxyRes.destroyed
    pendReqErr |-> FALSE,      \* an error event is due on proxyReq
    pendResErr |-> FALSE,      \* an error event is due on proxyRes
    timeoutArmed |-> FALSE,    \* the socket timeout can still fire
    timedOut |-> FALSE,        \* proxyReq has emitted timeout
    log |-> <<>> ]             \* the calls made, in order

Fresh(url, range) ==
  [Idle EXCEPT !.active = TRUE, !.url = url, !.range = range]

Logged(r, what) == [r EXCEPT !.log = Append(@, what)]

Has(log, what) == \E i \in DOMAIN log : log[i] = what

Before(log, a, b) ==
  \E i, j \in DOMAIN log : i < j /\ log[i] = a /\ log[j] = b

-----------------------------------------------------------------------------
(* Express and Node primitives                                             *)

JsonType == Tok("application/json; charset=utf-8")

\* res.status(code).json({error: msg}): one head, one body, the end.  On a
\* response whose head is already written Express throws on setting a header;
\* the attempt is counted.
ResJson(r, code, msg) ==
  IF r.headersSent
  THEN Logged([r EXCEPT !.headWrites = @ + 1], "res.json")
  ELSE Logged([r EXCEPT !.headersSent = TRUE,
                        !.resStatus = code,
                        !.resHeaders = [NoHeaders EXCEPT !.ct = Str(JsonType)],
                        !.resJson = Str(Tok(msg)),
                        !.headWrites = @ + 1,
                        !.resEnded = TRUE,
                        !.endCalls = @ + 1], "res.json")

\* res.status(code).send(text), the rate limiter's answer: no JSON body.
ResSend(r, code) ==
  Logged([r EXCEPT !.headersSent = TRUE,
                   !.resStatus = code,
                   !.resHeaders =
                      [NoHeaders EXCEPT !.ct = Str(Tok("text/html; charset=utf-8"))],
                   !.headWrites = @ + 1,
                   !.resEnded = TRUE,
                   !.endCalls = @ + 1], "res.send")

\* encodeUrl, applied by res.location(): characters that cannot stand in a URL
\* are percent-encoded, an existing %XX is kept, a lone % becomes %25.
EncodeUrlKeep ==
  LowerAlpha \cup UpperAlpha \cup Digits
    \cup {"!", "#", "$", "&", "'", "(", ")", "*", "+", ",", "-", ".", "/", ":",
          ";", "=", "?", "@", "[", "]", "_", "~"}

RECURSIVE encodeUrl(_)
encodeUrl(s) ==
  IF s = <<>> THEN <<>>
  ELSE IF s[1] = "%"
    THEN IF Len(s) >= 3 /\ IsHex(s[2]) /\ IsHex(s[3])
         THEN <<"%", s[2], s[3]>> \o encodeUrl(From(s, 4))
         ELSE <<"%", "2", "5">> \o encodeUrl(Tail(s))
  ELSE (IF s[1] \in EncodeUrlKeep THEN <<s[1]>> ELSE PercentEncode(s[1]))
         \o encodeUrl(Tail(s))

\* res.redirect(url): status 302, Location: encodeUrl(url), a short body, end.
ResRedirect(r, url) ==
  IF r.headersSent
  THEN Logged([r EXCEPT !.headWrites = @ + 1], "res.redirect")
  ELSE Logged([r EXCEPT !.headersSent = TRUE,
                        !.resStatus = 302,
                        !.resHeaders =
                           [NoHeaders EXCEPT !.loc = Str(encodeUrl(url)),
                                             !.ct = Str(Tok("text/plain; charset=utf-8"))],
                        !.headWrites = @ + 1,
                        !.resEnded = TRUE,
                        !.endCalls = @ + 1], "res.redirect")

\* res.writeHead(statusCode, headers)
ResWriteHead(r, statusCode, headers) ==
  IF r.headersSent
  THEN Logged([r EXCEPT !.headWrites = @ + 1], "res.writeHead")
  ELSE Logged([r EXCEPT !.headersSent = TRUE,
                        !.resStatus = statusCode,
                        !.resHeaders = headers,
                        !.headWrites = @ + 1], "res.writeHead")

\* res.end(): ends the response once; a response with no head yet gets the
\* implicit one (status 200).
ResEnd(r) ==
  IF r.resEnded THEN Logged(r, "res.end")
  ELSE Logged([r EXCEPT !.resEnded = TRUE,
                        !.endCalls = @ + 1,
                        !.headersSent = TRUE,
                        !.resStatus = IF r.headersSent THEN @ ELSE 200,
                        !.headWrites = IF r.headersSent THEN @ ELSE @ + 1],
              "res.end")

\* ResWrite of a pipe that ignores what res.write() returns: proxyRes is
\* never paused.
ResWrite_neverPauses(r, chunk) ==
  [r EXCEPT !.wbuf = IF r.clientOpen THEN Append(@, chunk) ELSE @,
            !.paused = FALSE]

\* res.write(chunk) as the pipe calls it: the chunk joins the write buffer
\* (it is dropped when the client is gone); a full buffer pauses proxyRes.
ResWrite(r, chunk) ==
  LET w == IF r.clientOpen THEN Append(r.wbuf, chunk) ELSE r.wbuf
  IN  [r EXCEPT !.wbuf = w, !.paused = Len(w) >= HighWaterMark]

\* The upstream socket is destroyed: no timeout can fire any more; a request
\* with no response yet gets an error event (socket hang up), an unfinished
\* response that is not yet destroyed gets one too (aborted).
SocketDestroy(r) ==
  IF r.sock # "open" THEN r
  ELSE [r EXCEPT !.sock = "closed",
                 !.timeoutArmed = FALSE,
                 !.pendReqErr = (r.upRes = undefined),
                 !.pendResErr = (r.upRes # undefined /\ ~r.complete
                                   /\ ~r.resDestroyed),
                 !.resDestroyed = @ \/ (r.upRes # undefined /\ ~r.complete)]

\* proxyReq.destroy(): idempotent; dumps a response already received (its
\* data listeners are removed and what it buffered is discarded) and destroys
\* the socket.
ProxyReqDestroy(r) ==
  LET c == Logged([r EXCEPT !.destroyCalls = @ + 1], "proxyReq.destroy")
  IN  IF r.reqDestroyed THEN c
      ELSE SocketDestroy(
             [c EXCEPT !.reqDestroyed = TRUE,
                       !.dumped = @ \/ (r.upRes # undefined),
                       !.rbuf = IF r.upRes # undefined THEN <<>> ELSE @,
                       !.paused = IF r.upRes # undefined THEN FALSE ELSE @])

\* proxyRes.destroy(): with no error given and no error listener, nothing is
\* emitted; the socket of an unfinished response is destroyed with it.
ProxyResDestroy(r) ==
  LET d == Logged([r EXCEPT !.resDestroyed = TRUE, !.rbuf = <<>>],
                  "proxyRes.destroy")
  IN  IF r.resDestroyed THEN Logged(r, "proxyRes.destroy")
      ELSE [SocketDestroy(d) EXCEPT !.pendResErr = FALSE]

-----------------------------------------------------------------------------
(* The handler of GET /video-proxy and its callbacks                       *)

\* Line 46.
max == 500

\* Line 133.
timeout == 30000

httpsProtocol == https \o <<":">>

\* Opts without lines 145-147: the Range header is never copied.
Opts_noRange(parsed, range) ==
  [ client   |-> IF parsed.protocol = httpsProtocol THEN "https" ELSE "http",
    hostname |-> parsed.hostname,
    port     |-> IF parsed.port # 0 THEN parsed.port
                 ELSE IF parsed.protocol = httpsProtocol THEN 443 ELSE 80,
    path     |-> parsed.pathname \o parsed.search,
    method   |-> "GET",
    timeout  |-> timeout,
    headers  |-> [ AcceptEncoding |-> Tok("identity"),
                   Connection |-> Tok("keep-alive"),
                   Referer |-> parsed.origin \o <<"/">>,
                   Range |-> undefined ] ]

\* Opts without `parsed.port ||` on line 130: always the default port.
Opts_defaultPortOnly(parsed, range) ==
  [ client   |-> IF parsed.protocol = httpsProtocol THEN "https" ELSE "http",
    hostname |-> parsed.hostname,
    port     |-> IF parsed.protocol = httpsProtocol THEN 443 ELSE 80,
    path     |-> parsed.pathname \o parsed.search,
    method   |-> "GET",
    timeout  |-> timeout,
    headers  |-> [ AcceptEncoding |-> Tok("identity"),
                   Connection |-> Tok("keep-alive"),
                   Referer |-> parsed.origin \o <<"/">>,
                   Range |-> IF Truthy(range) THEN range ELSE undefined ] ]

\* The options of the upstream request (lines 126-147).
Opts(parsed, range) ==
  [ client   |-> IF parsed.protocol = httpsProtocol THEN "https" ELSE "http",
    hostname |-> parsed.hostname,
    port     |-> IF parsed.port # 0 THEN parsed.port
                 ELSE IF parsed.protocol = httpsProtocol THEN 443 ELSE 80,
    path     |-> parsed.pathname \o parsed.search,
    method   |-> "GET",
    timeout  |-> timeout,
    headers  |-> [ AcceptEncoding |-> Tok("identity"),
                   Connection |-> Tok("keep-alive"),
                   Referer |-> parsed.origin \o <<"/">>,
                   Range |-> IF Truthy(range) THEN range ELSE undefined ] ]

\* client.request(opts, cb), the listeners of lines 192-211 and
\* proxyReq.end() (lines 149-213): one upstream request, its socket timeout
\* armed.
ClientRequest(r, opts) ==
  Logged([r EXCEPT !.nUp = @ + 1,
                   !.opts = <<opts>>,
                   !.sock = "open",
                   !.timeoutArmed = TRUE], "client.request")

\* Express's default error handler: status 500, no JSON body.
ResError500(r) ==
  Logged([r EXCEPT !.headersSent = TRUE,
                   !.resStatus = 500,
                   !.headWrites = @ + 1,
                   !.resEnded = TRUE,
                   !.endCalls = @ + 1], "res.error")

\* Handler without the try/catch of lines 120-124: the exception of a url
\* that does not parse reaches Express's error handler.
Handler_noTryCatch(r) ==
  IF ~Truthy(r.url) THEN ResJson(r, 400, "URL requerida")
  ELSE LET decoded == decodeURIComponent(r.url[1])
           parsed  == IF decoded.ok THEN URL(decoded.v) ELSE Throw
       IN  IF ~parsed.ok THEN ResError500(r)
           ELSE ClientRequest(r, Opts(parsed.v, r.range))

\* The route handler (lines 115-214).  The error texts are the code's, in
\* ASCII.
Handler(r) ==
  IF ~Truthy(r.url) THEN ResJson(r, 400, "URL requerida")
  ELSE LET decoded == decodeURIComponent(r.url[1])
           parsed  == IF decoded.ok THEN URL(decoded.v) ELSE Throw
       IN  IF ~parsed.ok THEN ResJson(r, 400, "URL invalida")
           ELSE ClientRequest(r, Opts(parsed.v, r.range))

ProxyPath ==
  <<"/", "v", "i", "d", "e", "o", "-", "p", "r", "o", "x", "y", "?", "u", "r",
    "l", "=">>

\* IsRedirect taking every 3xx status for a redirect.
IsRedirect_any3xx(res) ==
  res.statusCode >= 300 /\ res.statusCode < 400 /\ Truthy(res.location)

IsRedirect(res) ==
  res.statusCode \in RedirectStatuses /\ Truthy(res.location)

\* RelayHeaders without lines 169-171: Content-Range is never passed on.
RelayHeaders_noContentRange(res) ==
  [ ct   |-> IF Truthy(res.ct) THEN res.ct ELSE Str(Tok("video/mp4")),
    ar   |-> Str(Tok("bytes")),
    cc   |-> Str(Tok("public, max-age=3600")),
    xcto |-> Str(Tok("nosniff")),
    cl   |-> IF Truthy(res.cl) THEN res.cl ELSE undefined,
    cr   |-> undefined,
    loc  |-> undefined ]

\* RelayHeaders with the Content-Type fixed to video/mp4.
RelayHeaders_alwaysMp4(res) ==
  [ ct   |-> Str(Tok("video/mp4")),
    ar   |-> Str(Tok("bytes")),
    cc   |-> Str(Tok("public, max-age=3600")),
    xcto |-> Str(Tok("nosniff")),
    cl   |-> IF Truthy(res.cl) THEN res.cl ELSE undefined,
    cr   |-> IF Truthy(res.cr) THEN res.cr ELSE undefined,
    loc  |-> undefined ]

\* The headers of the relayed response (lines 158-171).
RelayHeaders(res) ==
  [ ct   |-> IF Truthy(res.ct) THEN res.ct ELSE Str(Tok("video/mp4")),
    ar   |-> Str(Tok("bytes")),
    cc   |-> Str(Tok("public, max-age=3600")),
    xcto |-> Str(Tok("nosniff")),
    cl   |-> IF Truthy(res.cl) THEN res.cl ELSE undefined,
    cr   |-> IF Truthy(res.cr) THEN res.cr ELSE undefined,
    loc  |-> undefined ]

\* proxyRes.pipe(res, {end: true}) and proxyRes.on('error') (lines 178-188).
Pipe(r) == Logged([r EXCEPT !.piped = TRUE, !.paused = FALSE], "proxyRes.pipe")

\* OnRedirect without encodeURIComponent.
OnRedirect_rawLocation(r, res) ==
  ResRedirect(ProxyResDestroy(r), ProxyPath \o res.location[1])

\* OnRedirect without proxyRes.destroy().
OnRedirect_noDestroy(r, res) ==
  ResRedirect(r, ProxyPath \o encodeURIComponent(res.location[1]))

\* OnRedirect of a proxy that follows the redirect itself: a second upstream
\* request, to the Location.
OnRedirect_followsItself(r, res) ==
  LET parsed == URL(res.location[1])
  IN  IF parsed.ok THEN ClientRequest(ProxyResDestroy(r), Opts(parsed.v, r.range))
      ELSE ResRedirect(ProxyResDestroy(r),
                       ProxyPath \o encodeURIComponent(res.location[1]))

\* The redirect branch of the response callback (lines 151-155).
OnRedirect(r, res) ==
  ResRedirect(ProxyResDestroy(r),
              ProxyPath \o encodeURIComponent(res.location[1]))

\* The relay branch of the response callback (lines 157-188).
OnRelay(r, res) ==
  Pipe(ResWriteHead(r, res.statusCode, RelayHeaders(res)))

\* The response callback (lines 149-189).
OnResponse(r, res) ==
  IF IsRedirect(res) THEN OnRedirect(r, res) ELSE OnRelay(r, res)

\* OnStreamError without the else branch: res is never ended.
OnStreamError_noEnd(r) ==
  IF ~r.headersSent THEN ResJson(r, 502, "Stream error") ELSE r

\* proxyRes.on('error') (lines 181-188).
OnStreamError(r) ==
  IF ~r.headersSent THEN ResJson(r, 502, "Stream error") ELSE ResEnd(r)

\* OnTimeout that only destroys the request and leaves the answer to the
\* error handler.
OnTimeout_destroyOnly(r) == ProxyReqDestroy(r)

\* OnTimeout that only logs the timeout.
OnTimeout_logOnly(r) == r

\* proxyReq.on('timeout') (lines 192-198).
OnTimeout(r) ==
  LET d == ProxyReqDestroy(r)
  IN  IF ~d.headersSent THEN ResJson(d, 504, "Timeout") ELSE d

\* OnError without the headersSent check.
OnError_noHeadersSentCheck(r) == ResJson(r, 502, "Connection error")

\* OnError answering with the timeout's status.
OnError_status504(r) ==
  IF ~r.headersSent THEN ResJson(r, 504, "Connection error") ELSE r

\* OnError that only logs the error.
OnError_logOnly(r) == r

\* proxyReq.on('error') (lines 201-206).
OnError(r) ==
  IF ~r.headersSent THEN ResJson(r, 502, "Connection error") ELSE r

\* OnClose leaving the upstream request alone.
OnClose_noDestroy(r) == r

\* req.on('close') (lines 209-211).
OnClose(r) == ProxyReqDestroy(r)

-----------------------------------------------------------------------------
(* The player of the served page (the script of lines 405-1070): the       *)
(* video element, the panels, the retry counter and the timers.  The       *)
(* texts the handlers write, the focus and the controls' hide timer        *)
(* (showUI) are left out; every other assignment of a handler is kept.     *)

\* The episodes of the season being watched (state.series.seasons[state.season]).
MaxEpisodes == 3

\* The interval ids setInterval hands out to showNext.
MaxTimers == 2

\* The timeouts pending at one time.
MaxPending == 2

\* The ticks of an interval that is counted below zero.
MaxOvertime == 1

\* state.maxRetries (line 426).
maxRetries == 3

\* let c = 8 (line 888).
Countdown == 8

\* nextT and bufferCheckT before any timer was set, and after "= null".
null == 0

\* The src content attribute set to the empty string, and the address of
\* the page.
EmptySrc == <<"empty">>
PageUrl == <<"page">>

\* The script's state after the page has loaded (lines 413-429): the detail
\* view of a series is shown and the player has not been opened.
PlayerIdle ==
  [ view         |-> "detail",
    epIdx        |-> 0,
    retryCount   |-> 0,
    nextT        |-> null,
    intervals    |-> {},       \* the live intervals of showNext: [id, c]
    ids          |-> 0,        \* the interval ids handed out so far
    timers       |-> <<>>,     \* the pending timeouts, oldest first
    src          |-> undefined,\* the src content attribute of the video
    playing      |-> FALSE,    \* play() was called and pause() was not
    pErr         |-> FALSE,    \* the panels' 'show' class
    pLoad        |-> FALSE,
    pNext        |-> FALSE,
    bufferCheckT |-> FALSE ]   \* the buffer monitor's interval is set

\* The delay of a timeout (lines 801, 875, 929).
Delay(t) ==
  CASE t.kind = "playEp" -> 100
    [] t.kind = "autoRetry" -> 2000
    [] t.kind = "retry" -> 500

\* setTimeout(fn, delay).
SetTimeout(p, t) == [p EXCEPT !.timers = Append(@, t)]

\* clearInterval(id): no effect when no live interval has this id.
ClearInterval(p, id) ==
  [p EXCEPT !.intervals = { iv \in @ : iv.id # id }]

\* el.vid.src read: the attribute resolved against the page's address.
SrcGetter(src) ==
  CASE src = undefined -> EmptySrc
    [] src = EmptySrc -> PageUrl
    [] OTHER -> src

\* The source playEp gives the video for the episode ep (lines 912-916).
EpisodeSrc(ep) == <<"episode", ep>>

\* A source the video can load media from.
IsMedia(src) == src # undefined /\ src # EmptySrc /\ src # PageUrl

\* stopBufferMonitor (lines 839-844).
stopBufferMonitor(p) == [p EXCEPT !.bufferCheckT = FALSE]

\* startBufferMonitor (lines 821-837).
startBufferMonitor(p) == [stopBufferMonitor(p) EXCEPT !.bufferCheckT = TRUE]

\* hideNext (line 897).
hideNext(p) ==
  IF p.nextT # null
    THEN [ClearInterval(p, p.nextT) EXCEPT !.pNext = FALSE, !.nextT = null]
    ELSE [p EXCEPT !.pNext = FALSE]

\* cancelNext (line 898).
cancelNext(p) == hideNext(p)

\* hasNext (line 899); state.series is set while the detail or player view
\* is open.
hasNext(p) == p.epIdx < MaxEpisodes - 1

\* showNext (lines 883-895): the interval is set whether or not nextT
\* already holds one.
showNext(p) ==
  IF ~hasNext(p) THEN p
  ELSE [p EXCEPT !.pNext = TRUE,
                 !.ids = @ + 1,
                 !.nextT = p.ids + 1,
                 !.intervals = @ \cup {[id |-> p.ids + 1, c |-> Countdown]}]

\* checkNext (lines 878-881); near is rem <= 15 && rem > 0.
checkNext(p, near) ==
  IF near /\ hasNext(p) /\ p.nextT = null THEN showNext(p) ELSE p

\* playEp (lines 905-930) for the episode ep.
playEp(p, ep) ==
  SetTimeout([hideNext([p EXCEPT !.retryCount = 0])
                EXCEPT !.pErr = FALSE, !.pLoad = TRUE,
                       !.playing = FALSE, !.src = undefined],
             [kind |-> "playEp", src |-> EpisodeSrc(ep)])

\* nextEp (line 901).
nextEp(p) ==
  LET h == hideNext(p)
  IN  IF hasNext(h) THEN playEp([h EXCEPT !.epIdx = @ + 1], h.epIdx + 1)
      ELSE h

\* prevEp (line 902).
prevEp(p) ==
  IF p.epIdx > 0 THEN playEp([p EXCEPT !.epIdx = @ - 1], p.epIdx - 1)
  ELSE p

\* retry (lines 860-876).
retry(p) ==
  SetTimeout([p EXCEPT !.pErr = FALSE, !.pLoad = TRUE, !.src = EmptySrc],
             [kind |-> "retry", src |-> SrcGetter(p.src)])

\* handleVideoError that retries every network error.
handleVideoError_unbounded(p, code) ==
  IF code = 2
    THEN SetTimeout([p EXCEPT !.retryCount = @ + 1], [kind |-> "autoRetry"])
    ELSE stopBufferMonitor([p EXCEPT !.pLoad = FALSE, !.pErr = TRUE])

\* handleVideoError (lines 780-807); code is el.vid.error.code.
handleVideoError(p, code) ==
  IF code = 2 /\ p.retryCount < maxRetries
    THEN SetTimeout([p EXCEPT !.retryCount = @ + 1], [kind |-> "autoRetry"])
    ELSE stopBufferMonitor([p EXCEPT !.pLoad = FALSE, !.pErr = TRUE])

\* openPlayer (lines 1053-1059), called from an episode of the detail view
\* with state.epIdx = i (line 1035).
openPlayer(p, i) == playEp([p EXCEPT !.epIdx = i, !.view = "player"], i)

\* closePlayerInternal (lines 1061-1070).
closePlayerInternal(p) ==
  stopBufferMonitor(hideNext([p EXCEPT !.playing = FALSE, !.src = undefined,
                                       !.view = "detail"]))

\* The callback of a timeout: playEp's (lines 924-929), handleVideoError's
\* (line 801) and retry's (lines 871-875).
TimeoutCallback(p, t) ==
  CASE t.kind = "playEp" -> [p EXCEPT !.src = t.src, !.playing = TRUE]
    [] t.kind = "autoRetry" -> retry(p)
    [] t.kind = "retry" -> [p EXCEPT !.src = t.src, !.playing = TRUE]

\* The callback of showNext's interval iv (lines 890-893); clearInterval
\* and the assignment act on what nextT holds when the callback runs.
IntervalCallback(p, iv) ==
  LET counted == [p EXCEPT !.intervals =
                    (@ \ {iv}) \cup {[iv EXCEPT !.c = @ - 1]}]
  IN  IF iv.c - 1 <= 0
        THEN nextEp([ClearInterval(counted, counted.nextT)
                       EXCEPT !.nextT = null])
        ELSE counted

-----------------------------------------------------------------------------
(* State and actions                                                       *)

VARIABLES
  sess,   \* the session of each slot
  hits,   \* requests the limiter has counted in the current window
  player  \* the player of the page a browser has loaded

vars == <<sess, hits, player>>

Init ==
  /\ sess = [s \in Sessions |-> Idle]
  /\ hits = 0
  /\ player = PlayerIdle

\* Nothing more can happen to the session.
Quiescent(r) ==
  /\ r.active
  /\ r.resEnded
  /\ r.wbuf = <<>> \/ ~r.clientOpen
  /\ r.sock # "open"
  /\ ~r.pendReqErr /\ ~r.pendResErr
  /\ r.nUp = 0 \/ r.closeFired

\* The limiter without the skip of line 47: every request is counted.
Skip_never(range) == FALSE

\* videoProxyLimiter (lines 44-48): skip(req) is req.headers.range.
Skip(range) == Truthy(range)

\* The limiter rejecting from the second counted request on.
Limiter_rejectsFromSecond(n, r) ==
  IF n > 1 THEN [ResSend(r, 429) EXCEPT !.limited = TRUE] ELSE Handler(r)

\* The limiter placed after the validation of the url: a request whose url
\* is refused is answered 400 whatever the count.
Limiter_validatesFirst(n, r) ==
  IF n > max /\ Handler(r).nUp > 0
  THEN [ResSend(r, 429) EXCEPT !.limited = TRUE]
  ELSE Handler(r)

\* The limiter on the n-th request it counts in the window (lines 44-46 and
\* 115): more than max is answered 429, otherwise the handler runs.
Limiter(n, r) ==
  IF n > max THEN [ResSend(r, 429) EXCEPT !.limited = TRUE] ELSE Handler(r)

\* The request of the fresh session r enters the route (line 115): the
\* limiter counts it unless it is skipped, and a skipped request goes to the
\* handler uncounted.
Enter(s, r) ==
  /\ ~sess[s].active \/ Quiescent(sess[s])
  /\ IF Skip(r.range)
     THEN /\ hits' = hits
          /\ sess' = [sess EXCEPT ![s] = Handler(r)]
     ELSE /\ hits' = hits + 1
          /\ sess' = [sess EXCEPT ![s] = Limiter(hits + 1, r)]
  /\ UNCHANGED player

\* A request arrives.
Arrive(s, url, range) == Enter(s, Fresh(url, range))

\* A request arrives, among the first MaxRequests the limiter counts.
Request(s, url, range) ==
  /\ hits < MaxRequests
  /\ Arrive(s, url, range)

\* The upstream answers: the response callback runs.
UpstreamResponse(s, res, body) ==
  LET r == sess[s]
  IN  /\ r.sock = "open" /\ r.upRes = undefined
      /\ sess' = [sess EXCEPT ![s] =
           OnResponse(Logged([r EXCEPT !.upRes = <<res>>,
                                       !.upBody = body,
                                       !.complete = (body = <<>>)],
                             "response"), res)]
      /\ UNCHANGED <<hits, player>>

\* A chunk of the upstream body arrives.  A flowing, piped response hands it
\* to res.write(); a paused one, or one nobody reads, buffers it and stops
\* reading the socket once its buffer is full; a dumped one drops it.
UpstreamData(s) ==
  LET r     == sess[s]
      chunk == r.upBody[r.recv + 1]
      got   == [r EXCEPT !.recv = @ + 1,
                         !.complete = (r.recv + 1 = Len(r.upBody))]
  IN  /\ r.sock = "open" /\ r.upRes # undefined /\ ~r.resDestroyed
      /\ r.recv < Len(r.upBody)
      /\ Len(r.rbuf) < HighWaterMark
      /\ sess' = [sess EXCEPT ![s] =
           IF r.dumped THEN got
           ELSE IF r.paused \/ ~r.piped
             THEN [got EXCEPT !.rbuf = Append(@, chunk)]
           ELSE ResWrite(got, chunk)]
      /\ UNCHANGED <<hits, player>>

\* What the pipe does when res drains: proxyRes resumes and hands over what
\* it buffered, until res is full again; a destroyed proxyRes emits no data.
RECURSIVE Resume(_)
Resume(r) ==
  IF r.rbuf = <<>> \/ r.paused \/ r.resDestroyed THEN r
  ELSE Resume(ResWrite([r EXCEPT !.rbuf = Tail(@)], Head(r.rbuf)))

\* The client takes a chunk from res; an emptied buffer emits drain.
ClientRead(s) ==
  LET r    == sess[s]
      took == [r EXCEPT !.wbuf = Tail(@),
                        !.delivered = Append(@, Head(r.wbuf))]
  IN  /\ r.clientOpen /\ r.wbuf # <<>>
      /\ sess' = [sess EXCEPT ![s] =
           IF took.wbuf = <<>> /\ r.paused
           THEN Resume([took EXCEPT !.paused = FALSE])
           ELSE took]
      /\ UNCHANGED <<hits, player>>

\* proxyRes emits end: the pipe ends res; the socket is released.
UpstreamEnd(s) ==
  LET r == sess[s]
  IN  /\ r.upRes # undefined /\ r.piped /\ r.complete /\ ~r.ended
      /\ ~r.resDestroyed /\ r.rbuf = <<>> /\ ~r.paused
      /\ sess' = [sess EXCEPT ![s] =
           ResEnd([r EXCEPT !.ended = TRUE,
                            !.sock = "closed",
                            !.timeoutArmed = FALSE])]
      /\ UNCHANGED <<hits, player>>

\* The upstream socket stays idle for the timeout: proxyReq emits timeout
\* (once).
UpstreamTimeout(s) ==
  LET r == sess[s]
  IN  /\ r.sock = "open" /\ r.timeoutArmed
      /\ sess' = [sess EXCEPT ![s] =
           OnTimeout(Logged([r EXCEPT !.timeoutArmed = FALSE,
                                      !.timedOut = TRUE], "timeout"))]
      /\ UNCHANGED <<hits, player>>

\* The upstream connection fails (refused, reset): proxyReq emits error at
\* once; an unfinished response is aborted.
SocketError(s) ==
  LET r == sess[s]
  IN  /\ r.sock = "open" /\ ~r.reqDestroyed
      /\ sess' = [sess EXCEPT ![s] =
           OnError(Logged([SocketDestroy(r) EXCEPT !.pendReqErr = FALSE],
                          "proxyReq.error"))]
      /\ UNCHANGED <<hits, player>>

\* The error event that proxyReq.destroy() leaves due on proxyReq.
ProxyReqError(s) ==
  LET r == sess[s]
  IN  /\ r.pendReqErr
      /\ sess' = [sess EXCEPT ![s] =
           OnError(Logged([r EXCEPT !.pendReqErr = FALSE], "proxyReq.error"))]
      /\ UNCHANGED <<hits, player>>

\* The error event due on an aborted proxyRes.
ProxyResError(s) ==
  LET r == sess[s]
  IN  /\ r.pendResErr /\ r.piped
      /\ sess' = [sess EXCEPT ![s] =
           OnStreamError(Logged([r EXCEPT !.pendResErr = FALSE],
                                "proxyRes.error"))]
      /\ UNCHANGED <<hits, player>>

\* ClientClose with proxyReq held in one variable of the module instead of
\* the handler's scope: the close of one request destroys the upstream
\* request of every session.
ClientClose_sharedProxyReq(s) ==
  LET r == sess[s]
  IN  /\ r.nUp > 0 /\ ~r.closeFired
      /\ sess' = [t \in DOMAIN sess |->
           IF t = s
           THEN OnClose(Logged([r EXCEPT !.closeFired = TRUE,
                                         !.clientOpen = FALSE,
                                         !.wbuf = <<>>], "close"))
           ELSE IF sess[t].nUp > 0 THEN ProxyReqDestroy(sess[t]) ELSE sess[t]]
      /\ UNCHANGED <<hits, player>>

\* req emits close: the client went away, or the response is finished.
ClientClose(s) ==
  LET r == sess[s]
  IN  /\ r.nUp > 0 /\ ~r.closeFired
      /\ sess' = [sess EXCEPT ![s] =
           OnClose(Logged([r EXCEPT !.closeFired = TRUE,
                                    !.clientOpen = FALSE,
                                    !.wbuf = <<>>], "close"))]
      /\ UNCHANGED <<hits, player>>

Next ==
  \/ \E s \in Sessions, q \in RequestInputs : Request(s, q[1], q[2])
  \/ \E s \in Sessions, a \in UpstreamReplies : UpstreamResponse(s, a[1], a[2])
  \/ \E s \in Sessions : UpstreamData(s)
  \/ \E s \in Sessions : ClientRead(s)
  \/ \E s \in Sessions : UpstreamEnd(s)
  \/ \E s \in Sessions : UpstreamTimeout(s)
  \/ \E s \in Sessions : SocketError(s)
  \/ \E s \in Sessions : ProxyReqError(s)
  \/ \E s \in Sessions : ProxyResError(s)
  \/ \E s \in Sessions : ClientClose(s)

Spec == Init /\ [][Next]_vars

\* Spec with the progress the runtime gives: a socket left idle times out
\* (line 133), an event that is due is delivered, a response whose body is
\* complete and read emits end; and the client takes what is written to it.
\* Nothing makes the upstream answer or the client close.
FairSpec ==
  /\ Spec
  /\ \A s \in Sessions :
       /\ WF_vars(UpstreamTimeout(s))
       /\ WF_vars(ProxyReqError(s))
       /\ WF_vars(ProxyResError(s))
       /\ WF_vars(UpstreamEnd(s))
       /\ WF_vars(ClientRead(s))

-----------------------------------------------------------------------------
(* The rate limiter over a whole window: one client, up to max + 2 counted *)
(* requests, an upstream whose answer does not change.                     *)

\* What the client asks: one url with each Range header, and a url that
\* does not parse.
LimiterInputs ==
  { <<Str(U_http), g>> : g \in RangeInputs } \cup { <<Str(U_relative), undefined>> }

\* The unchanging upstream: 206 to a request with a Range header, 200 to one
\* without, no entity headers, an empty body.
LimiterReply(opts) ==
  UpstreamResponse_(IF opts.headers.Range # undefined THEN 206 ELSE 200,
                    undefined, NoEntityHeaders)

\* A request arrives, until the limiter has counted two more than max.
LimiterRequest(s, url, range) ==
  /\ hits <= max + 1
  /\ Arrive(s, url, range)

\* The upstream gives its answer.
LimiterResponse(s) ==
  /\ sess[s].sock = "open"
  /\ UpstreamResponse(s, LimiterReply(sess[s].opts[1]), Body(0))

LimiterNext ==
  \/ \E s \in Sessions, q \in LimiterInputs : LimiterRequest(s, q[1], q[2])
  \/ \E s \in Sessions : LimiterResponse(s)
  \/ \E s \in Sessions : UpstreamEnd(s)
  \/ \E s \in Sessions : UpstreamTimeout(s)
  \/ \E s \in Sessions : SocketError(s)
  \/ \E s \in Sessions : ProxyReqError(s)
  \/ \E s \in Sessions : ClientClose(s)

LimiterSpec == Init /\ [][LimiterNext]_vars

-----------------------------------------------------------------------------
(* The same request issued again and again: one client, one url, no Range  *)
(* header, two session slots so that two answers can be compared, the      *)
(* unchanging upstream.                                                    *)

TwiceSessions == {1, 2}

TwiceInit ==
  /\ sess = [s \in TwiceSessions |-> Idle]
  /\ hits = 0
  /\ player = PlayerIdle

\* GET /video-proxy?url=http://h/a with no Range header.
TwiceRequest(s) == LimiterRequest(s, Str(U_http), undefined)

TwiceNext ==
  \/ \E s \in TwiceSessions : TwiceRequest(s)
  \/ \E s \in TwiceSessions : LimiterResponse(s)
  \/ \E s \in TwiceSessions : UpstreamEnd(s)
  \/ \E s \in TwiceSessions : ProxyReqError(s)
  \/ \E s \in TwiceSessions : ClientClose(s)

TwiceSpec == TwiceInit /\ [][TwiceNext]_vars

-----------------------------------------------------------------------------
(* Redirect re-entry: a client that follows the 302 of the proxy, and an   *)
(* origin that may answer every request with a redirect.                   *)

\* Redirects a client follows before it gives up.
MaxFollow == 3

L_escapedSlash == <<"h", "t", "t", "p", ":", "/", "/", "o", "/", "a", "%",
                    "2", "F", "b">>

\* The Location headers of the origin: back to the url first asked (a loop),
\* and two urls with percent-escapes.
RedirectLocations == {U_http, L_absolute, L_escapedSlash}

RedirectReplies ==
  { <<UpstreamResponse_(st, Str(l), NoEntityHeaders), Body(1)>> :
      st \in {302, 307}, l \in RedirectLocations }
  \cup { <<UpstreamResponse_(200, undefined, NoEntityHeaders), Body(0)>> }

RedirectInputs == { <<Str(U_http), g>> : g \in {undefined, Str(Tok("bytes=1-"))} }

RECURSIVE PlusToSpace(_)
PlusToSpace(s) ==
  IF s = <<>> THEN <<>>
  ELSE <<IF s[1] = "+" THEN " " ELSE s[1]>> \o PlusToSpace(Tail(s))

\* How Express's query parser decodes a parameter value (line 116,
\* req.query): "+" is a space, then decodeURIComponent; a value that does not
\* decode is kept as it is.
QueryDecode(s) ==
  LET d == decodeURIComponent(PlusToSpace(s))
  IN  IF d.ok THEN d.v ELSE PlusToSpace(s)

\* The client follows the 302 of its finished request: it asks for the
\* Location it was given, /video-proxy?url=..., with the headers of the
\* request before; Express decodes the url parameter (line 116).
Follow(s) ==
  LET old    == sess[s]
      target == From(old.resHeaders.loc[1], Len(ProxyPath) + 1)
  IN  /\ old.active /\ Has(old.log, "res.redirect")
      /\ old.depth < MaxFollow
      /\ Enter(s, [Fresh(Str(QueryDecode(target)), old.range)
                    EXCEPT !.depth = old.depth + 1,
                           !.via = old.upRes[1].location])

RedirectNext ==
  \/ \E s \in Sessions, q \in RedirectInputs : Request(s, q[1], q[2])
  \/ \E s \in Sessions : Follow(s)
  \/ \E s \in Sessions, a \in RedirectReplies : UpstreamResponse(s, a[1], a[2])
  \/ \E s \in Sessions : UpstreamEnd(s)
  \/ \E s \in Sessions : ProxyReqError(s)
  \/ \E s \in Sessions : ClientClose(s)

RedirectSpec == Init /\ [][RedirectNext]_vars

-----------------------------------------------------------------------------
(* The resolver and the request builder on their own: urls of every shape, *)
(* an upstream that never answers.                                         *)

\* https://h:81/a
U_httpsPort == <<"h", "t", "t", "p", "s", ":", "/", "/", "h", ":", "8", "1", "/", "a">>

\* http://h:80/a
U_explicitDefault == <<"h", "t", "t", "p", ":", "/", "/", "h", ":", "8", "0", "/", "a">>

\* https://h
U_noPath == <<"h", "t", "t", "p", "s", ":", "/", "/", "h">>

\* https://h:80/a?q
U_httpsOn80 == <<"h", "t", "t", "p", "s", ":", "/", "/", "h", ":", "8", "0", "/", "a", "?", "q">>

\* ftp://h:21/a
U_ftpPort == <<"f", "t", "p", ":", "/", "/", "h", ":", "2", "1", "/", "a">>

ResolveUrls ==
  {U_http, U_https, U_port, U_httpsPort, U_explicitDefault, U_noPath,
   U_httpsOn80, U_ftp, U_ftpPort}

ResolveInputs ==
  { <<Str(u), g>> : u \in ResolveUrls, g \in {undefined, Str(Tok("bytes=1-"))} }

ResolveNext ==
  \/ \E s \in Sessions, q \in ResolveInputs : Request(s, q[1], q[2])
  \/ \E s \in Sessions : UpstreamTimeout(s)
  \/ \E s \in Sessions : SocketError(s)
  \/ \E s \in Sessions : ProxyReqError(s)
  \/ \E s \in Sessions : ClientClose(s)

ResolveSpec == Init /\ [][ResolveNext]_vars

-----------------------------------------------------------------------------
(* Two sessions at once: the same request in two slots, every event of the *)
(* upstream and of the client in any order.                                *)

ConcurrentReplies ==
  { <<UpstreamResponse_(200, undefined, NoEntityHeaders), Body(1)>>,
    <<UpstreamResponse_(302, Str(L_absolute), NoEntityHeaders), Body(1)>> }

ConcurrentNext ==
  \/ \E s \in TwiceSessions : Request(s, Str(U_http), undefined)
  \/ \E s \in TwiceSessions, a \in ConcurrentReplies :
       UpstreamResponse(s, a[1], a[2])
  \/ \E s \in TwiceSessions : UpstreamData(s)
  \/ \E s \in TwiceSessions : ClientRead(s)
  \/ \E s \in TwiceSessions : UpstreamEnd(s)
  \/ \E s \in TwiceSessions : UpstreamTimeout(s)
  \/ \E s \in TwiceSessions : SocketError(s)
  \/ \E s \in TwiceSessions : ProxyReqError(s)
  \/ \E s \in TwiceSessions : ProxyResError(s)
  \/ \E s \in TwiceSessions : ClientClose(s)

ConcurrentSpec == TwiceInit /\ [][ConcurrentNext]_vars

-----------------------------------------------------------------------------
(* The player: one page, its user, its video element and its timers.  The  *)
(* proxy's sessions stay as they are.                                      *)

\* The values of el.vid.error.code (lines 787-792).
ErrorCodes == 1..4

\* What the bounds leave room for.
Bounded(p) ==
  /\ Len(p.timers) <= MaxPending
  /\ p.ids <= MaxTimers
  /\ \A iv \in p.intervals : iv.c >= 0 - MaxOvertime

\* A handler or callback leaves the player as q.
Dispatch(q) ==
  /\ Bounded(q)
  /\ player' = q
  /\ UNCHANGED <<sess, hits>>

\* A click on episode i of the detail view (line 1035).
OpenPlayer(i) ==
  /\ player.view = "detail"
  /\ Dispatch(openPlayer(player, i))

\* The way back out of the player (handleHistoryBack, lines 461-463).
HistoryBack ==
  /\ player.view = "player"
  /\ Dispatch(closePlayerInternal(player))

\* v 'waiting' (lines 712-716).
Waiting ==
  /\ IsMedia(player.src)
  /\ Dispatch([player EXCEPT !.pLoad = TRUE])

\* v 'canplay' (lines 701-705).
Canplay ==
  /\ IsMedia(player.src)
  /\ Dispatch([player EXCEPT !.pLoad = FALSE, !.retryCount = 0])

\* v 'playing' (lines 718-725).
Playing ==
  /\ IsMedia(player.src)
  /\ player.playing
  /\ Dispatch(startBufferMonitor(hideNext([player EXCEPT !.pLoad = FALSE])))

\* v 'timeupdate' (lines 733-736); near says whether between 0 and 15
\* seconds remain.
Timeupdate(near) ==
  /\ IsMedia(player.src)
  /\ Dispatch(checkNext(player, near))

\* v 'ended' (lines 746-749).
Ended ==
  /\ IsMedia(player.src)
  /\ player.playing
  /\ Dispatch(showNext(stopBufferMonitor(player)))

\* v 'error' (line 752); a source that is no media fails as unsupported.
VideoError(code) ==
  /\ player.src # undefined
  /\ IsMedia(player.src) \/ code = 4
  /\ Dispatch(handleVideoError(player, code))

\* el.pRetry.onclick (line 769); the button is in the error panel.
ClickRetry ==
  /\ player.view = "player"
  /\ player.pErr
  /\ Dispatch(retry(player))

\* el.pNxt.onclick and el.pNextPlay.onclick (lines 768, 771).
ClickNext ==
  /\ player.view = "player"
  /\ Dispatch(nextEp(player))

\* el.pPrev.onclick (line 767).
ClickPrev ==
  /\ player.view = "player"
  /\ Dispatch(prevEp(player))

\* el.pNextCancel.onclick (line 772); the button is in the next-episode
\* panel.
ClickNextCancel ==
  /\ player.view = "player"
  /\ player.pNext
  /\ Dispatch(cancelNext(player))

\* The pending timeout k is due: no timeout set before it has a delay that
\* ends sooner or at the same time.
Due(p, k) ==
  \A j \in 1..(k - 1) : Delay(p.timers[j]) > Delay(p.timers[k])

\* The pending timeout k fires.
Timeout(k) ==
  /\ k \in 1..Len(player.timers)
  /\ Due(player, k)
  /\ Dispatch(TimeoutCallback(
                [player EXCEPT !.timers =
                   [n \in 1..(Len(@) - 1) |-> IF n < k THEN @[n] ELSE @[n + 1]]],
                player.timers[k]))

\* The live interval with the id i ticks.
Interval(i) ==
  \E iv \in player.intervals :
    /\ iv.id = i
    /\ Dispatch(IntervalCallback(player, iv))

PlayerNext ==
  \/ \E i \in 0..(MaxEpisodes - 1) : OpenPlayer(i)
  \/ HistoryBack
  \/ Waiting
  \/ Canplay
  \/ Playing
  \/ \E near \in BOOLEAN : Timeupdate(near)
  \/ Ended
  \/ \E code \in ErrorCodes : VideoError(code)
  \/ ClickRetry
  \/ ClickNext
  \/ ClickPrev
  \/ ClickNextCancel
  \/ \E k \in 1..MaxPending : Timeout(k)
  \/ \E i \in 1..MaxTimers : Interval(i)

PlayerSpec == Init /\ [][PlayerNext]_vars

-----------------------------------------------------------------------------
(* Properties                                                              *)

\* The calls that write a status line and headers downstream.
HeadWriteCalls ==
  {"res.json", "res.send", "res.redirect", "res.writeHead", "res.end"}

\* A session the handler has run for.
Handled(r) == r.active /\ ~r.limited

\* The url inputs that are absent, empty, or do not decode and parse.
MalformedUrls == {undefined, Str(<<>>), Str(U_relative), Str(U_badEscape)}

ProtocolOf(url) ==
  IF ~Truthy(url) THEN <<>>
  ELSE LET d == decodeURIComponent(url[1])
       IN  IF ~d.ok THEN <<>>
           ELSE IF ~URL(d.v).ok THEN <<>> ELSE URL(d.v).v.protocol

\* C2: a url that parses as an absolute URI whose scheme is neither http nor
\* https is answered 400, and no upstream connection is attempted.
C2_UnsupportedSchemeIs400 ==
  \A s \in Sessions :
    LET r == sess[s]
    IN  (Handled(r)
           /\ ProtocolOf(r.url) \notin {<<>>, http \o <<":">>, https \o <<":">>})
          => r.resStatus = 400 /\ r.nUp = 0

\* C3 as claimed: the upstream request carries a Range header exactly when
\* the inbound request carries one, with the same value, and the status the
\* client receives is the status the upstream returned.
C3_RangeAndStatusAsClaimed ==
  \A s \in Sessions :
    LET r == sess[s]
    IN  r.nUp > 0
          => /\ (r.opts[1].headers.Range # undefined) <=> (r.range # undefined)
             /\ r.range # undefined => r.opts[1].headers.Range = r.range
             /\ r.upRes # undefined => r.resStatus = r.upRes[1].statusCode

\* The upstream response is one the code redirects on: a redirect status and
\* a Location header that is not empty.
RedirectWithLocation(res) ==
  /\ res.statusCode \in {301, 302, 303, 307, 308}
  /\ res.location # undefined /\ res.location[1] # <<>>

\* C3, amended: the upstream request carries a Range header exactly when the
\* inbound request carries a non-empty one, with the same value; and when the
\* upstream response is relayed (it is no redirect with a non-empty Location)
\* the status the client receives is the status the upstream returned.
C3_RangePassedThrough ==
  \A s \in Sessions :
    LET r == sess[s]
    IN  r.nUp > 0
          => /\ (r.opts[1].headers.Range # undefined)
                  <=> (r.range # undefined /\ r.range[1] # <<>>)
             /\ r.opts[1].headers.Range # undefined
                  => r.opts[1].headers.Range = r.range
             /\ (r.upRes # undefined /\ ~RedirectWithLocation(r.upRes[1]))
                  => r.resStatus = r.upRes[1].statusCode

C3_Witness ==
  \E s \in Sessions :
    LET r == sess[s]
    IN  /\ r.range = Str(Tok("bytes=1-"))
        /\ r.nUp = 1 /\ r.opts[1].headers.Range = Str(Tok("bytes=1-"))
        /\ r.upRes # undefined /\ r.upRes[1].statusCode = 206
        /\ r.resStatus = 206

\* encodeURIComponent("http://o/f%20g") after "/video-proxy?url=".
Redirect_L_absolute ==
  ProxyPath \o
  <<"h", "t", "t", "p", "%", "3", "A", "%", "2", "F", "%", "2", "F", "o",
    "%", "2", "F", "f", "%", "2", "5", "2", "0", "g">>

\* C4 as claimed: every upstream response with a redirect status and a
\* Location header is answered 302 to /video-proxy?url=<encoded Location>.
C4_RedirectAsClaimed ==
  \A s \in Sessions :
    LET r == sess[s]
    IN  (r.upRes # undefined
           /\ r.upRes[1].statusCode \in {301, 302, 303, 307, 308}
           /\ r.upRes[1].location # undefined)
          => /\ r.resStatus = 302
             /\ r.resHeaders.loc # undefined
             /\ r.upRes[1].location = Str(L_absolute)
                  => r.resHeaders.loc = Str(Redirect_L_absolute)

\* C4, amended: every upstream response with a redirect status and a
\* non-empty Location header is answered 302 to /video-proxy?url= followed by
\* the URI-component-encoded Location, whatever the redirect status was.
C4_RedirectToProxy ==
  \A s \in Sessions :
    LET r == sess[s]
    IN  (r.upRes # undefined /\ RedirectWithLocation(r.upRes[1]))
          => /\ r.resStatus = 302
             /\ r.resHeaders.loc # undefined
             /\ r.upRes[1].location = Str(L_absolute)
                  => r.resHeaders.loc = Str(Redirect_L_absolute)
             /\ r.resEnded /\ r.headWrites = 1

C4_Witness ==
  \E s \in Sessions :
    LET r == sess[s]
    IN  /\ r.upRes # undefined /\ r.upRes[1].statusCode = 308
        /\ r.upRes[1].location = Str(L_absolute)
        /\ r.resStatus = 302
        /\ r.resHeaders.loc = Str(Redirect_L_absolute)

\* C5: when the code redirects, the upstream response is destroyed before
\* the redirect is sent, and in no state of the session is a chunk of the
\* upstream body read or forwarded.
C5_RedirectReadsNoBody ==
  \A s \in Sessions :
    LET r == sess[s]
    IN  Has(r.log, "res.redirect")
          => /\ Before(r.log, "proxyRes.destroy", "res.redirect")
             /\ r.resDestroyed /\ ~r.piped
             /\ r.recv = 0 /\ r.rbuf = <<>>
             /\ r.wbuf = <<>> /\ r.delivered = <<>>

C5_Witness ==
  \E s \in Sessions :
    LET r == sess[s]
    IN  /\ Has(r.log, "res.redirect") /\ r.upBody # <<>>
        /\ r.closeFired /\ r.recv = 0

\* C6: every upstream response that is not a redirect with a Location (any
\* status outside 301, 302, 303, 307, 308, and any of those without a
\* Location) is relayed, with the upstream's status code unchanged.
C6_OtherStatusRelayed ==
  \A s \in Sessions :
    LET r == sess[s]
    IN  (r.upRes # undefined /\ ~RedirectWithLocation(r.upRes[1]))
          => /\ r.piped /\ Has(r.log, "res.writeHead")
             /\ ~Has(r.log, "res.redirect")
             /\ r.resStatus = r.upRes[1].statusCode

C6_Witness ==
  \E s \in Sessions :
    LET r == sess[s]
    IN  /\ r.upRes # undefined /\ r.upRes[1].statusCode = 304
        /\ r.upRes[1].location = Str(L_absolute)
        /\ r.resStatus = 304 /\ r.delivered # <<>>

\* C7: in every session, under every interleaving of the upstream response,
\* the timeout, the request error, the body error and the client's close,
\* the downstream status and headers are written at most once.
C7_HeadWrittenAtMostOnce ==
  \A s \in Sessions : sess[s].headWrites <= 1

C7_Witness ==
  \E s \in Sessions :
    LET r == sess[s]
    IN  /\ r.piped /\ r.timedOut /\ Has(r.log, "proxyRes.error")
        /\ r.closeFired /\ r.headWrites = 1

\* C8: when the timeout fires before the upstream's response headers, the
\* client gets one response, with status 504; the error event that destroying
\* the request raises neither turns it into a 502 nor writes again.
C8_TimeoutIs504 ==
  \A s \in Sessions :
    LET r == sess[s]
    IN  (r.timedOut /\ r.upRes = undefined)
          => /\ r.resStatus = 504
             /\ r.resJson = Str(Tok("Timeout"))
             /\ r.headWrites = 1 /\ r.resEnded

C8_Witness ==
  \E s \in Sessions :
    LET r == sess[s]
    IN  /\ r.timedOut /\ r.upRes = undefined
        /\ Before(r.log, "timeout", "proxyReq.error")
        /\ r.resStatus = 504

\* C9: when the upstream request fails before any response headers and
\* nothing has been written downstream, the client gets 502 with a JSON body
\* that has an error field, and no other upstream request is made.
C9_ConnectionErrorIs502 ==
  \A s \in Sessions :
    LET r == sess[s]
    IN  (/\ r.upRes = undefined
         /\ \E i \in DOMAIN r.log :
              /\ r.log[i] = "proxyReq.error"
              /\ \A j \in 1..(i - 1) : r.log[j] \notin HeadWriteCalls)
          => /\ r.resStatus = 502
             /\ r.resJson = Str(Tok("Connection error"))
             /\ r.resHeaders.ct = Str(JsonType)
             /\ r.headWrites = 1 /\ r.resEnded
             /\ r.nUp = 1

C9_Witness ==
  \E s \in Sessions :
    LET r == sess[s]
    IN  /\ r.upRes = undefined /\ Has(r.log, "proxyReq.error")
        /\ ~r.timedOut /\ ~r.reqDestroyed
        /\ r.resStatus = 502

\* C10: when the upstream body stream errors after the downstream headers
\* were sent, the downstream response is ended and no error status or error
\* payload is written.
C10_StreamErrorEndsResponse ==
  \A s \in Sessions :
    LET r == sess[s]
    IN  Before(r.log, "res.writeHead", "proxyRes.error")
          => /\ r.resEnded /\ Has(r.log, "res.end")
             /\ r.resStatus = r.upRes[1].statusCode
             /\ r.resJson = undefined
             /\ r.headWrites = 1

C10_Witness ==
  \E s \in Sessions :
    LET r == sess[s]
    IN  /\ Before(r.log, "res.writeHead", "proxyRes.error")
        /\ r.delivered # <<>> /\ r.clientOpen /\ ~r.timedOut
        /\ r.resEnded

\* C11: when the upstream body stream errors after the upstream's headers
\* were received and before any byte of the body has been sent to the client
\* (here: before any has even arrived), the client receives a 502 error
\* payload and not the upstream's status.
C11_StreamErrorBeforeBodyIs502 ==
  \A s \in Sessions :
    LET r == sess[s]
    IN  (r.upRes # undefined /\ Has(r.log, "proxyRes.error") /\ r.recv = 0)
          => /\ r.resStatus = 502
             /\ r.resJson # undefined

\* C12: the step in which the client's close is seen leaves the upstream
\* request destroyed and its connection no longer open, whether the close
\* came before the upstream's headers or in mid-transfer; and from then on no
\* chunk of the upstream body is read.
C12_DisconnectDestroysUpstream ==
  [][\A s \in Sessions :
       /\ (~sess[s].closeFired /\ sess'[s].closeFired)
            => /\ sess'[s].reqDestroyed
               /\ sess'[s].sock = "closed"
               /\ sess'[s].recv = sess[s].recv
       /\ (sess[s].closeFired /\ sess'[s].closeFired)
            => /\ sess'[s].sock = "closed"
               /\ sess'[s].recv = sess[s].recv
               /\ sess'[s].delivered = sess[s].delivered]_vars

C12_Witness ==
  \E s \in Sessions :
    LET r == sess[s]
    IN  /\ r.closeFired /\ r.sock = "closed"
        /\ ~r.timedOut /\ ~Has(r.log, "proxyReq.error")
        /\ r.upRes # undefined
        /\ r.recv > 0 /\ r.recv < Len(r.upBody)
        /\ Has(r.log, "proxyRes.error")

\* What can still happen to the session of slot s: every step but the
\* arrival of the next request.
SessionStep(s) ==
  \/ \E a \in UpstreamReplies : UpstreamResponse(s, a[1], a[2])
  \/ UpstreamData(s)
  \/ ClientRead(s)
  \/ UpstreamEnd(s)
  \/ UpstreamTimeout(s)
  \/ SocketError(s)
  \/ ProxyReqError(s)
  \/ ProxyResError(s)
  \/ ClientClose(s)

\* The session of slot s is over: the handler ran and no step is left to it.
Terminal(s) == Handled(sess[s]) /\ ~ENABLED SessionStep(s)

\* The calls that end the downstream response.
EndCalls == {"res.json", "res.redirect", "res.end", "res.error"}

\* How the session came to its end.
ExitPath(r) ==
  IF r.nUp = 0 THEN "rejected"
  ELSE IF Has(r.log, "res.redirect") THEN "redirect"
  ELSE IF r.timedOut /\ r.upRes = undefined THEN "timeout before headers"
  ELSE IF r.timedOut THEN "timeout after headers"
  ELSE IF Has(r.log, "proxyReq.error") /\ r.upRes = undefined
    THEN "connection error"
  ELSE IF Has(r.log, "proxyRes.error") THEN "body error"
  ELSE IF r.ended THEN "end of body"
  ELSE "other"

C14_DisconnectWritesNoError ==
  \A s \in Sessions :
    LET r == sess[s]
    IN  (\E i \in DOMAIN r.log :
           /\ r.log[i] = "close"
           /\ \A j \in 1..(i - 1) :
                r.log[j] \notin HeadWriteCalls
                              \cup {"response", "timeout", "proxyReq.error"})
          => /\ r.resStatus \notin {502, 504}
             /\ r.resJson = undefined

IsPrefix(a, b) == Len(a) <= Len(b) /\ a = SubSeq(b, 1, Len(a))

\* C15: at every point of a relay the chunks delivered to the client, and
\* those written to the response and not yet delivered, are a prefix of the
\* upstream body in its order; and once the upstream body has ended with no
\* error event and no client disconnect, the response is ended and what was
\* written to it is the whole upstream body.
C15_BodyRelayedInOrderAndWhole ==
  \A s \in Sessions :
    LET r == sess[s]
    IN  /\ IsPrefix(r.delivered, r.upBody)
        /\ r.clientOpen => IsPrefix(r.delivered \o r.wbuf, r.upBody)
        /\ (/\ r.ended
            /\ ~Has(r.log, "proxyRes.error") /\ ~Has(r.log, "proxyReq.error")
            /\ ~r.closeFired)
             => /\ r.resEnded
                /\ r.delivered \o r.wbuf = r.upBody

\* A relayed response: its head was written by the relay branch.
Relayed(r) == r.upRes # undefined /\ Has(r.log, "res.writeHead")

\* C16 as claimed: on a relayed response Content-Length and Content-Range
\* each appear downstream exactly when the upstream response carried that
\* header, with the same value.
C16_EntityHeadersAsClaimed ==
  \A s \in Sessions :
    LET r == sess[s]
    IN  Relayed(r)
          => /\ r.resHeaders.cl = r.upRes[1].cl
             /\ r.resHeaders.cr = r.upRes[1].cr

\* C16, amended: on a relayed response Content-Length and Content-Range each
\* appear downstream exactly when the upstream response carried that header
\* with a non-empty value, and then with the same value.
C16_EntityHeadersPassedThrough ==
  \A s \in Sessions :
    LET r == sess[s]
    IN  Relayed(r)
          => /\ r.resHeaders.cl # undefined <=> Truthy(r.upRes[1].cl)
             /\ r.resHeaders.cl # undefined => r.resHeaders.cl = r.upRes[1].cl
             /\ r.resHeaders.cr # undefined <=> Truthy(r.upRes[1].cr)
             /\ r.resHeaders.cr # undefined => r.resHeaders.cr = r.upRes[1].cr

C16_Witness ==
  \E s \in Sessions :
    LET r == sess[s]
    IN  /\ Relayed(r) /\ r.resStatus = 206
        /\ r.upRes[1].cr = Str(Tok("bytes 1-2/3"))
        /\ r.resHeaders.cr = Str(Tok("bytes 1-2/3"))
        /\ r.resHeaders.cl = Str(Tok("2"))
        /\ r.delivered = Body(2)

\* C17 as claimed: on every relayed response the downstream Content-Type is
\* the upstream's when the upstream sent the header and video/mp4 otherwise,
\* and Accept-Ranges is bytes.
C17_ContentTypeAsClaimed ==
  \A s \in Sessions :
    LET r == sess[s]
    IN  Relayed(r)
          => /\ r.resHeaders.ct = IF r.upRes[1].ct # undefined
                                  THEN r.upRes[1].ct
                                  ELSE Str(Tok("video/mp4"))
             /\ r.resHeaders.ar = Str(Tok("bytes"))

\* C17, amended: on every relayed response the downstream Content-Type is
\* the upstream's when the upstream sent a non-empty one and video/mp4
\* otherwise, and Accept-Ranges is bytes whatever the upstream sent.
C17_ContentTypeOrDefault ==
  \A s \in Sessions :
    LET r == sess[s]
    IN  Relayed(r)
          => /\ r.resHeaders.ct = IF Truthy(r.upRes[1].ct)
                                  THEN r.upRes[1].ct
                                  ELSE Str(Tok("video/mp4"))
             /\ r.resHeaders.ar = Str(Tok("bytes"))

C17_Witness ==
  \E s \in Sessions :
    LET r == sess[s]
    IN  /\ Relayed(r)
        /\ r.upRes[1].ct = Str(Tok("video/webm"))
        /\ r.resHeaders.ct = Str(Tok("video/webm"))
        /\ r.resHeaders.ar = Str(Tok("bytes"))
        /\ r.resEnded

\* C18 as claimed: a request carrying a Range header is never rejected by
\* the rate limiter.
C18_RangeNeverLimitedAsClaimed ==
  \A s \in Sessions :
    sess[s].range # undefined => ~sess[s].limited /\ sess[s].resStatus # 429

\* C18, amended: a request carrying a non-empty Range header is not counted
\* and never rejected by the rate limiter, however many requests it has
\* counted; every other request is counted, and is rejected with 429 exactly
\* when it is counted beyond max.
C18_RangeBypassesLimiter ==
  [][/\ \A s \in Sessions :
          Truthy(sess'[s].range)
            => /\ ~sess'[s].limited
               /\ sess'[s].resStatus # 429
               /\ sess'[s].nUp = 1
     /\ hits' # hits
          => /\ hits' = hits + 1
             /\ \E s \in Sessions :
                  /\ ~Truthy(sess'[s].range)
                  /\ Len(sess'[s].log) = 1
                  /\ sess'[s].limited <=> hits' > max
                  /\ sess'[s].limited <=> sess'[s].resStatus = 429
     /\ hits' = hits
          => \A s \in Sessions :
               (sess'[s] # sess[s] /\ Len(sess'[s].log) = 1)
                 => Truthy(sess'[s].range)]_vars

C18_Witness ==
  \E s \in Sessions :
    LET r == sess[s]
    IN  /\ hits = max + 1
        /\ r.range = Str(Tok("bytes=1-"))
        /\ r.upRes # undefined /\ r.resStatus = 206 /\ r.resEnded

\* The request was answered: by the limiter or the handler without an
\* upstream request, or with the upstream's response in hand.
Answered(r) ==
  r.active /\ r.headersSent /\ (r.nUp > 0 => r.upRes # undefined)

\* Two answered requests for the same url, neither with a Range header,
\* that got the same response from the upstream if they got one.
SameRequestTwice(a, b) ==
  /\ Answered(a) /\ Answered(b)
  /\ a.url = b.url
  /\ a.range = undefined /\ b.range = undefined
  /\ (a.upRes # undefined /\ b.upRes # undefined) => a.upRes = b.upRes

SameAnswer(a, b) ==
  a.resStatus = b.resStatus /\ a.resHeaders.ct = b.resHeaders.ct

C20_TimeoutOnlyBeforeHeaders ==
  \A s \in Sessions :
    LET r == sess[s]
    IN  \A i \in DOMAIN r.log :
          (r.log[i] = "timeout"
             /\ \E j \in 1..(i - 1) : r.log[j] = "res.writeHead")
            => /\ i < Len(r.log) => r.log[i + 1] # "proxyReq.destroy"
               /\ ~Has(r.log, "proxyRes.error")

\* C21: the chain of redirect re-entries of one client request ends before
\* the client gives up: the request the client makes after following
\* MaxFollow redirects is not answered with yet another redirect.
C21_RedirectChainEnds ==
  \A s \in Sessions :
    sess[s].depth = MaxFollow => ~Has(sess[s].log, "res.redirect")

\* The target new URL() resolves for the absolute url l, as the handler uses
\* it: host, port (the default of the scheme when the url has none) and
\* path with query.
TargetOf(l) ==
  LET u == URL(l).v
  IN  [ hostname |-> u.hostname,
        port     |-> IF u.port # 0 THEN u.port
                     ELSE IF u.protocol = httpsProtocol THEN 443 ELSE 80,
        path     |-> u.pathname \o u.search ]

\* C25: when the client follows the 302 the proxy issued for the absolute
\* upstream Location L, the new session resolves the target of L: its
\* upstream request goes to the host, port and path with query of L.
C25_ReentryResolvesLocation ==
  \A s \in Sessions :
    LET r == sess[s]
    IN  (Handled(r) /\ r.via # undefined)
          => /\ r.nUp = 1
             /\ r.opts[1].hostname = TargetOf(r.via[1]).hostname
             /\ r.opts[1].port = TargetOf(r.via[1]).port
             /\ r.opts[1].path = TargetOf(r.via[1]).path

\* C22: what the proxy holds of the upstream body and has not yet written
\* downstream never exceeds HighWaterMark chunks, and neither does the
\* downstream write buffer; while the pipe is in place proxyRes is paused
\* whenever the write buffer is full, and a paused proxyRes resumes only
\* when the client has taken the last chunk of the write buffer, which then
\* holds nothing but what proxyRes hands over (or the response was dumped).
C22_BackpressureBoundsBuffers ==
  [][\A s \in Sessions :
       LET r == sess[s]
           q == sess'[s]
       IN  /\ Len(q.rbuf) <= HighWaterMark
           /\ Len(q.wbuf) <= HighWaterMark
           /\ (q.piped /\ ~q.dumped /\ Len(q.wbuf) >= HighWaterMark)
                => q.paused
           /\ (q.piped /\ ~q.paused /\ ~q.resDestroyed) => q.rbuf = <<>>
           /\ (r.paused /\ ~q.paused)
                => \/ q.dumped
                   \/ /\ Len(r.wbuf) = 1
                      /\ q.delivered = Append(r.delivered, r.wbuf[1])
                      /\ q.wbuf \o q.rbuf = r.rbuf]_vars

C22_Witness ==
  \E s \in Sessions :
    LET r == sess[s]
    IN  /\ r.piped /\ r.paused /\ r.clientOpen /\ r.sock = "open"
        /\ Len(r.wbuf) = HighWaterMark
        /\ Len(r.rbuf) = HighWaterMark
        /\ r.delivered # <<>>

\* C23: a session creates at most one upstream request over its whole life:
\* none after an error or a timeout, and none for a redirect, which is
\* handed back to the client.
C23_AtMostOneUpstreamRequest ==
  \A s \in Sessions :
    LET r == sess[s]
    IN  /\ r.nUp <= 1
        /\ Cardinality({ i \in DOMAIN r.log : r.log[i] = "client.request" }) = r.nUp
        /\ \A i \in DOMAIN r.log :
             r.log[i] \in {"timeout", "proxyReq.error", "proxyRes.error",
                           "res.redirect"}
               => \A j \in (i + 1)..Len(r.log) : r.log[j] # "client.request"

C23_Witness ==
  \E s \in Sessions :
    LET r == sess[s]
    IN  /\ Has(r.log, "res.redirect") /\ r.upRes[1].statusCode = 307
        /\ r.closeFired /\ r.nUp = 1 /\ r.sock = "closed"

\* A step changes at most one session.
OneSessionChanges ==
  \A s, t \in TwiceSessions :
    s # t => (sess'[s] = sess[s] \/ sess'[t] = sess[t])

ClaimedTarget(u) ==
  CASE u = U_http            -> [client |-> "http", hostname |-> <<"h">>, port |-> 80, path |-> <<"/", "a">>]
    [] u = U_https           -> [client |-> "https", hostname |-> <<"h">>, port |-> 443, path |-> <<"/", "a">>]
    [] u = U_port            -> [client |-> "http", hostname |-> <<"h">>, port |-> 81, path |-> <<"/", "a", "?", "q">>]
    [] u = U_httpsPort       -> [client |-> "https", hostname |-> <<"h">>, port |-> 81, path |-> <<"/", "a">>]
    [] u = U_explicitDefault -> [client |-> "http", hostname |-> <<"h">>, port |-> 80, path |-> <<"/", "a">>]
    [] u = U_noPath          -> [client |-> "https", hostname |-> <<"h">>, port |-> 443, path |-> <<"/">>]
    [] u = U_httpsOn80       -> [client |-> "https", hostname |-> <<"h">>, port |-> 80, path |-> <<"/", "a", "?", "q">>]
    [] u = U_ftp             -> [client |-> "http", hostname |-> <<"h">>, port |-> 0, path |-> <<"/", "a">>]
    [] u = U_ftpPort         -> [client |-> "http", hostname |-> <<"h">>, port |-> 21, path |-> <<"/", "a">>]

TargetAsClaimed(r) ==
  LET c == ClaimedTarget(r.url[1])
      o == r.opts[1]
  IN  /\ r.nUp = 1
      /\ o.client = c.client
      /\ o.hostname = c.hostname
      /\ c.port # 0 => o.port = c.port
      /\ o.path = c.path

NewIn(s) ==
  /\ Len(sess'[s].log) = 1
  /\ sess'[s] # sess[s] \/ hits' # hits

\* The limiter answered the new session of slot s itself: 429, before any
\* validation of the url and with no upstream request.
RejectedFirst(s) ==
  /\ sess'[s].limited
  /\ sess'[s].log = <<"res.send">>
  /\ sess'[s].resStatus = 429 /\ sess'[s].resJson = undefined
  /\ sess'[s].nUp = 0 /\ sess'[s].opts = <<>> /\ sess'[s].sock = "none"

\* The new session of slot s reached the handler.
ReachedResolver(s) ==
  /\ ~sess'[s].limited
  /\ sess'[s].log \in {<<"res.json">>, <<"client.request">>}

\* C28 as claimed: in one window the first max counted requests reach the
\* handler and each further one is rejected by the limiter before any url
\* validation or upstream request; a request with a Range header is not
\* counted.
C28_QuotaAsClaimed ==
  [][\A s \in Sessions :
       NewIn(s)
         => /\ sess'[s].range # undefined => hits' = hits
            /\ hits' # hits
                 => /\ hits' = hits + 1
                    /\ IF hits' <= max THEN ReachedResolver(s)
                       ELSE RejectedFirst(s)]_vars

\* C28, amended: as claimed, but a request is left uncounted only when its
\* Range header is not empty; a request with an empty Range header is
\* counted like one without.
C28_QuotaOfCountedRequests ==
  [][\A s \in Sessions :
       NewIn(s)
         => /\ Truthy(sess'[s].range) <=> hits' = hits
            /\ Truthy(sess'[s].range) => ReachedResolver(s)
            /\ hits' # hits
                 => /\ hits' = hits + 1
                    /\ IF hits' <= max THEN ReachedResolver(s)
                       ELSE RejectedFirst(s)]_vars

C28_Witness ==
  \E s \in Sessions :
    /\ hits = max + 1
    /\ sess[s].url = Str(U_relative)
    /\ sess[s].limited /\ sess[s].resStatus = 429 /\ sess[s].nUp = 0

\* The session is over: the downstream response is ended or the client is
\* gone, and no upstream connection is open.
Over(r) == (r.resEnded \/ ~r.clientOpen) /\ r.sock # "open"

C29_SingleCountdown ==
  \A iv \in player.intervals : iv.id = player.nextT /\ iv.c > 0

\* The automatic retries waiting for their two seconds.
RetryTimers(p) ==
  Cardinality({k \in 1..Len(p.timers) : p.timers[k].kind = "autoRetry"})

\* The step is the 'canplay' listener's (lines 701-705).
CanplayStep ==
  player' = [player EXCEPT !.pLoad = FALSE, !.retryCount = 0]

\* The step has run playEp (lines 905-930): its timeout is the newest.
PlayEpStep ==
  /\ Len(player'.timers) = Len(player.timers) + 1
  /\ player'.timers[Len(player'.timers)].kind = "playEp"
  /\ player'.src = undefined

\* C30: automatic retries after a network error are bounded.  Every
\* automatic retry that is scheduled raises the retry counter by one, the
\* counter never passes maxRetries and goes down only when canplay or
\* playEp resets it to zero, and a network error that finds the counter at
\* maxRetries shows the error panel and schedules nothing.
C30_RetriesBounded ==
  [][/\ player'.retryCount \in 0..maxRetries
     /\ RetryTimers(player') > RetryTimers(player)
          => /\ RetryTimers(player') = RetryTimers(player) + 1
             /\ player'.retryCount = player.retryCount + 1
     /\ player'.retryCount < player.retryCount
          => /\ player'.retryCount = 0
             /\ CanplayStep \/ PlayEpStep
     /\ player'.retryCount = maxRetries
          => LET q == handleVideoError(player', 2)
             IN  /\ q.pErr
                 /\ q.retryCount = maxRetries
                 /\ q.timers = player'.timers]_vars

\* Witness for C30: the counter is at maxRetries, the three retries have
\* run, the video has failed once more and the error panel is shown.
C30_Witness ==
  /\ player.retryCount = maxRetries
  /\ player.timers = <<>>
  /\ player.src = EpisodeSrc(0)
  /\ player.playing
  /\ player.pErr
  /\ ~player.pLoad


\* C31: once the player has been closed no pending timeout of playEp,
\* handleVideoError or retry gives the video a source or starts playback
\* again: while the view is not the player, the video has no source and
\* is not playing.
C31_ClosedPlayerStaysSilent ==
  player.view # "player" => (player.src = undefined /\ ~player.playing)

====
